---- MODULE Spec2Model ----
(***************************************************************************)
(* The analysis pipeline orchestration engine of small-audio-toolkit:      *)
(* MethodRegistry (engine/registry.py), ResultsAggregator                  *)
(* (engine/results.py) and AnalysisRunner (engine/runner.py).              *)
(*                                                                         *)
(* Python values are encoded as follows.  A dict is a function whose       *)
(* DOMAIN is its key set (a missing key is a key outside the DOMAIN); an   *)
(* insertion-ordered dict whose order matters (the registry, the           *)
(* aggregator's results, the configured analyses) is a sequence of         *)
(* key/value records; None is the record NoneValue; a list is a sequence.  *)
(* Time is a counter: datetime.now() reads the variable now.               *)
(***************************************************************************)
EXTENDS Integers, Sequences, FiniteSets, TLC

VARIABLES
    methods,   \* MethodRegistry._methods (ordered dict, as a sequence of registrations)
    ret,       \* what the last call of the registry or of the aggregator returned or raised
    config,    \* AnalysisRunner.config
    results,   \* ResultsAggregator.results (ordered dict category -> list of results)
    metadata,  \* ResultsAggregator.metadata
    context,   \* AnalysisRunner.context
    audio,     \* the audio_path argument of the current run()
    pc,        \* where run() stands
    ci,        \* index of the category _execute_analyses is in
    mi,        \* index of the method entry _execute_analyses is at
    error,     \* the exception run() propagated to its caller
    invoked,   \* log of the calls registration.function(context, merged_params)
    written,   \* log of the results.json documents written by export_json
    runNo,     \* how many times run() was called on this runner
    timestamp, \* ResultsAggregator.timestamp
    now,       \* the clock datetime.now() reads
    rendered   \* log of the calls _generate_method_visualization(method, viz_data, viz_dir)

vars == <<methods, ret, config, results, metadata, context, audio, pc, ci, mi,
          error, invoked, written, runNo, timestamp, now, rendered>>

(***************************************************************************)
(* Bounds of the model.                                                    *)
(***************************************************************************)
\* Method entries in one configuration, summed over its categories.
MaxEntries == 2
\* Method entries in a configuration of a runner that is run more than once.
MaxRerunEntries == 1
\* Calls of run() on one runner.
MaxRuns == 2
\* Method entries in a configuration that enables visualization.
MaxVizEntries == 2
\* Calls of add_result on an aggregator used on its own.
MaxResults == 2
\* Calls of export_json on an aggregator used on its own.
MaxExports == 2
\* Ticks of the clock after the aggregator was constructed.
MaxClock == 1
\* Samples of the first channel when segments are computed on their own.
MaxSamples == 6
\* Largest segment_duration, in half seconds.
MaxHalfSeconds == 4
\* Method entries of a configuration with an output section.
MaxOutputEntries == 1
\* Method entries of a configuration that lists a method more than once.
MaxRepeatedEntries == 2

(***************************************************************************)
(* Python helpers.                                                         *)
(***************************************************************************)
NoneValue == [NoneType |-> "None"]

\* dict.get(key, default)
Get(d, key, default) == IF key \in DOMAIN d THEN d[key] ELSE default

\* {**a, **b}: the keys of both, b's value where both have the key.
DictMerge(a, b) ==
    [k \in DOMAIN a \cup DOMAIN b |-> IF k \in DOMAIN b THEN b[k] ELSE a[k]]

EmptyDict == [k \in {} |-> ""]

\* sum(...) of a list of numbers
RECURSIVE SumOf(_)
SumOf(numbers) == IF numbers = <<>> THEN 0 ELSE Head(numbers) + SumOf(Tail(numbers))

(***************************************************************************)
(* MethodRegistry (engine/registry.py).                                    *)
(***************************************************************************)
Identifiers == {"envelope", "fft_global"}
RegCategories == {"temporal", "spectral"}
\* The callables: each returns results under its own, hard-coded method name.
Functions == {"envelope_analysis", "fft_global"}
Descriptions == {"", "Global FFT spectrum"}
\* default_params arguments of register(); NoneValue is the argument's default.
DefaultParamChoices == {NoneValue, [window |-> "hann"]}

MethodRegistration(identifier, category, function, description, default_params) ==
    [identifier |-> identifier, category |-> category, function |-> function,
     description |-> description, default_params |-> default_params]

\* identifier in self._methods
IsRegistered(ms, identifier) ==
    \E i \in 1..Len(ms) : ms[i].identifier = identifier

\* default_params or {}
OrEmptyDict(default_params) ==
    IF default_params = NoneValue \/ DOMAIN default_params = {}
    THEN EmptyDict ELSE default_params

\* register() without its duplicate check: a second registration of an
\* identifier silently replaces the first.
register_overwrite(ms, identifier, category, function, description, default_params) ==
    LET registration == MethodRegistration(identifier, category, function,
                                           description, OrEmptyDict(default_params))
    IN  [methods |-> IF IsRegistered(ms, identifier)
                     THEN [i \in 1..Len(ms) |->
                             IF ms[i].identifier = identifier THEN registration
                             ELSE ms[i]]
                     ELSE Append(ms, registration),
         raised |-> "None"]

\* register() storing no default parameters, whatever it was given.
register_drop_defaults(ms, identifier, category, function, description, default_params) ==
    IF IsRegistered(ms, identifier)
    THEN [methods |-> ms, raised |-> "ValueError"]
    ELSE [methods |-> Append(ms, MethodRegistration(identifier, category, function,
                                    description, EmptyDict)),
          raised |-> "None"]

\* MethodRegistry.register: the registry after the call and what it raised.
register(ms, identifier, category, function, description, default_params) ==
    IF IsRegistered(ms, identifier)
    THEN [methods |-> ms, raised |-> "ValueError"]
    ELSE [methods |-> Append(ms, MethodRegistration(identifier, category, function,
                                    description, OrEmptyDict(default_params))),
          raised |-> "None"]

\* get_method falling back on the first registration instead of None.
get_method_or_first(ms, identifier) ==
    IF IsRegistered(ms, identifier)
    THEN ms[CHOOSE i \in 1..Len(ms) : ms[i].identifier = identifier]
    ELSE IF ms # <<>> THEN ms[1] ELSE NoneValue

\* MethodRegistry.get_method: self._methods.get(identifier)
get_method(ms, identifier) ==
    IF IsRegistered(ms, identifier)
    THEN ms[CHOOSE i \in 1..Len(ms) : ms[i].identifier = identifier]
    ELSE NoneValue

\* get_by_category listing the newest registration first.
get_by_category_newest_first(ms, category) ==
    LET matching == SelectSeq(ms, LAMBDA registration : registration.category = category)
    IN  [i \in 1..Len(matching) |-> matching[Len(matching) + 1 - i]]

\* MethodRegistry.get_by_category: the registrations of self._methods.values()
\* whose category is the argument, in the dict's (insertion) order.
get_by_category(ms, category) ==
    SelectSeq(ms, LAMBDA registration : registration.category = category)

\* MethodRegistry.list_all: list(self._methods.keys())
list_all(ms) == [i \in 1..Len(ms) |-> ms[i].identifier]

\* No registry call made yet.
NoCall ==
    [op |-> "none", identifier |-> "", args |-> NoneValue, raised |-> "None",
     value |-> NoneValue]

\* A call of register() with any arguments.
Register ==
    \E identifier \in Identifiers, category \in RegCategories, function \in Functions,
       description \in Descriptions, default_params \in DefaultParamChoices :
        LET r == register(methods, identifier, category, function, description,
                          default_params)
        IN /\ methods' = r.methods
           /\ ret' = [op |-> "register", identifier |-> identifier,
                      args |-> [category |-> category, function |-> function,
                                description |-> description,
                                default_params |-> default_params],
                      raised |-> r.raised, value |-> NoneValue]
           /\ UNCHANGED <<config, results, metadata, context, audio, pc, ci, mi,
                          error, invoked, written, runNo, timestamp, now, rendered>>

\* A call of get_method() with any identifier.
GetMethod ==
    \E identifier \in Identifiers \cup {"nonexistent_method"} :
        /\ ret' = [op |-> "get_method", identifier |-> identifier,
                   args |-> NoneValue, raised |-> "None",
                   value |-> get_method(methods, identifier)]
        /\ UNCHANGED <<methods, config, results, metadata, context, audio, pc, ci,
                       mi, error, invoked, written, runNo,
                   timestamp, now, rendered>>

\* A call of get_by_category() with a category, registered or not.
GetByCategory ==
    \E category \in RegCategories \cup {"steganography"} :
        /\ ret' = [op |-> "get_by_category", identifier |-> "",
                   args |-> [category |-> category], raised |-> "None",
                   value |-> get_by_category(methods, category)]
        /\ UNCHANGED <<methods, config, results, metadata, context, audio, pc, ci,
                       mi, error, invoked, written, runNo,
                   timestamp, now, rendered>>

\* A call of list_all().
ListAll ==
    /\ ret' = [op |-> "list_all", identifier |-> "", args |-> NoneValue,
               raised |-> "None", value |-> list_all(methods)]
    /\ UNCHANGED <<methods, config, results, metadata, context, audio, pc, ci,
                   mi, error, invoked, written, runNo,
                   timestamp, now, rendered>>

(***************************************************************************)
(* The registry a runner sees through get_registry(), as register_method() *)
(* calls left it: one method registered without default parameters, one    *)
(* with.                                                                   *)
(***************************************************************************)
RunnerRegistry ==
    LET r1 == register(<<>>, "envelope", "temporal", "envelope_analysis",
                       "Amplitude envelope analysis", NoneValue).methods
    IN  register(r1, "fft_global", "spectral", "fft_global", "Global FFT spectrum",
                 [window |-> "hann", n_fft |-> "1024"]).methods

(***************************************************************************)
(* ResultsAggregator (engine/results.py).                                  *)
(***************************************************************************)
AnalysisResult(method, measurements, metrics) ==
    [method |-> method, measurements |-> measurements, metrics |-> metrics,
     anomaly_score |-> NoneValue, visualization_data |-> NoneValue]

\* category in self.results
HasCategory(res, category) == \E i \in 1..Len(res) : res[i].category = category

\* add_result keeping only the newest result of a category.
add_result_replace(res, category, result) ==
    LET withKey == IF HasCategory(res, category) THEN res
                   ELSE Append(res, [category |-> category, items |-> <<>>])
    IN  [i \in 1..Len(withKey) |->
            IF withKey[i].category = category
            THEN [withKey[i] EXCEPT !.items = <<result>>]
            ELSE withKey[i]]

\* add_result inserting at the front of the category's list.
add_result_prepend(res, category, result) ==
    LET withKey == IF HasCategory(res, category) THEN res
                   ELSE Append(res, [category |-> category, items |-> <<>>])
    IN  [i \in 1..Len(withKey) |->
            IF withKey[i].category = category
            THEN [withKey[i] EXCEPT !.items = <<result>> \o @]
            ELSE withKey[i]]

\* ResultsAggregator.add_result
add_result(res, category, result) ==
    LET withKey == IF HasCategory(res, category) THEN res
                   ELSE Append(res, [category |-> category, items |-> <<>>])
    IN  [i \in 1..Len(withKey) |->
            IF withKey[i].category = category
            THEN [withKey[i] EXCEPT !.items = Append(@, result)]
            ELSE withKey[i]]

\* del result['visualization_data']
StripVisualization(r) == [k \in DOMAIN r \ {"visualization_data"} |-> r[k]]

\* result.to_dict(): asdict(self), a dict with one key per field.
to_dict(result) ==
    [k \in {"method", "measurements", "metrics", "anomaly_score",
            "visualization_data"} |-> result[k]]

\* get_results stamping the document with the time of the call.
get_results_stamped_at_call(res, meta, ts) ==
    [timestamp |-> now, metadata |-> meta,
     results |-> [i \in 1..Len(res) |->
                    [category |-> res[i].category,
                     items |-> [j \in 1..Len(res[i].items) |->
                                  to_dict(res[i].items[j])]]]]

\* ResultsAggregator.get_results, of an aggregator whose timestamp is ts.
get_results(res, meta, ts) ==
    [timestamp |-> ts, metadata |-> meta,
     results |-> [i \in 1..Len(res) |->
                    [category |-> res[i].category,
                     items |-> [j \in 1..Len(res[i].items) |->
                                  to_dict(res[i].items[j])]]]]

\* export_json leaving the results as get_results returned them.
export_json_keep_visualization(res, meta, ts, include_viz_data) ==
    get_results(res, meta, ts)

\* ResultsAggregator.export_json: the document written to output_path.
export_json(res, meta, ts, include_viz_data) ==
    LET doc == get_results(res, meta, ts)
    IN  IF include_viz_data THEN doc
        ELSE [doc EXCEPT !.results =
                [i \in 1..Len(doc.results) |->
                    [doc.results[i] EXCEPT !.items =
                        [j \in 1..Len(doc.results[i].items) |->
                            IF "visualization_data" \in DOMAIN doc.results[i].items[j]
                            THEN StripVisualization(doc.results[i].items[j])
                            ELSE doc.results[i].items[j]]]]]

\* export_json deleting the payloads in the AnalysisResult objects themselves.
results_after_export_in_place(res, include_viz_data) ==
    IF include_viz_data THEN res
    ELSE [i \in 1..Len(res) |->
            [category |-> res[i].category,
             items |-> [j \in 1..Len(res[i].items) |->
                          [res[i].items[j] EXCEPT !.visualization_data = NoneValue]]]]

\* What export_json leaves in self.results: get_results() builds new dicts
\* with asdict(), the keys are deleted in those, and the AnalysisResult
\* objects are not touched.
results_after_export(res, include_viz_data) == res

\* get_summary counting the categories where it should count the results.
get_summary_count_categories(res) ==
    [total_categories |-> Len(res),
     total_methods |-> Len(res),
     categories |-> [i \in 1..Len(res) |->
                       [category |-> res[i].category,
                        method_count |-> Len(res[i].items),
                        methods |-> [j \in 1..Len(res[i].items) |->
                                       res[i].items[j].method]]]]

\* ResultsAggregator.get_summary
get_summary(res) ==
    [total_categories |-> Len(res),
     total_methods |-> SumOf([i \in 1..Len(res) |-> Len(res[i].items)]),
     categories |-> [i \in 1..Len(res) |->
                       [category |-> res[i].category,
                        method_count |-> Len(res[i].items),
                        methods |-> [j \in 1..Len(res[i].items) |->
                                       res[i].items[j].method]]]]

\* The results handed to add_result by a caller of the aggregator: one with
\* a visualization payload, one that records a failed execution.
SampleResults ==
    { [AnalysisResult("stft", [n_frames |-> "12"], [window |-> "hann"])
          EXCEPT !.visualization_data = [mono |-> "spectrogram"]],
      AnalysisResult("cepstrum", [error |-> "boom"], [execution_failed |-> TRUE]) }

\* The metadata handed to set_metadata.
MetadataChoices == {[audio_file |-> "mono.wav"]}

\* What a call of the aggregator leaves in ret.
AggregatorCall(op, args, value) ==
    [op |-> op, identifier |-> "", args |-> args, raised |-> "None", value |-> value]

\* A call of add_result().
AddResult ==
    /\ SumOf([i \in 1..Len(results) |-> Len(results[i].items)]) < MaxResults
    /\ \E category \in {"time_frequency", "spectral"}, result \in SampleResults :
          /\ results' = add_result(results, category, result)
          /\ ret' = AggregatorCall("add_result",
                                   [category |-> category, result |-> result],
                                   NoneValue)
    /\ UNCHANGED <<methods, config, metadata, context, audio, pc, ci, mi, error,
                   invoked, written, runNo, timestamp, now, rendered>>

\* A call of set_metadata().
SetMetadata ==
    /\ \E meta \in MetadataChoices :
          /\ metadata' = meta
          /\ ret' = AggregatorCall("set_metadata", [metadata |-> meta], NoneValue)
    /\ UNCHANGED <<methods, config, results, context, audio, pc, ci, mi, error,
                   invoked, written, runNo, timestamp, now, rendered>>

\* A call of get_results().
GetResults ==
    /\ ret' = AggregatorCall("get_results", NoneValue,
                             get_results(results, metadata, timestamp))
    /\ UNCHANGED <<methods, config, results, metadata, context, audio, pc, ci, mi,
                   error, invoked, written, runNo, timestamp, now, rendered>>

\* A call of get_summary().
GetSummary ==
    /\ ret' = AggregatorCall("get_summary", NoneValue, get_summary(results))
    /\ UNCHANGED <<methods, config, results, metadata, context, audio, pc, ci, mi,
                   error, invoked, written, runNo, timestamp, now, rendered>>

\* A call of export_json(), with or without the visualization payloads.  The
\* log keeps, with the document, what the aggregator held.
ExportJson ==
    /\ Len(written) < MaxExports
    /\ \E include_viz_data \in BOOLEAN :
          /\ written' = Append(written,
                [run |-> 0, include_viz_data |-> include_viz_data,
                 doc |-> export_json(results, metadata, timestamp, include_viz_data),
                 results |-> results, metadata |-> metadata])
          /\ results' = results_after_export(results, include_viz_data)
          /\ ret' = AggregatorCall("export_json",
                                   [include_viz_data |-> include_viz_data], NoneValue)
    /\ UNCHANGED <<methods, config, metadata, context, audio, pc, ci, mi,
                   error, invoked, runNo, timestamp, now, rendered>>

\* Time passes.
Tick ==
    /\ now < MaxClock
    /\ now' = now + 1
    /\ UNCHANGED <<methods, ret, config, results, metadata, context, audio, pc, ci,
                   mi, error, invoked, written, runNo, timestamp, rendered>>

(***************************************************************************)
(* Configurations.                                                         *)
(***************************************************************************)
\* The method entries a configuration may list.
MethodEntries ==
    { [name |-> "envelope"],
      [name |-> "fft_global", params |-> [window |-> "hamming", overlap |-> "0.5"]],
      [name |-> "nonexistent_method", params |-> EmptyDict],
      [params |-> [window |-> "hamming"]],
      [name |-> "envelope", params |-> NoneValue] }

MethodLists(n) == UNION {[1..k -> MethodEntries] : k \in 0..n}

\* A category's configuration without its method list: enabled true, false, not given.
\* A category may also come without a "methods" key, or be None instead of a dict.
EnabledChoices == {[enabled |-> TRUE], [enabled |-> FALSE], EmptyDict}

CategoryNames == {"temporal", "spectral"}

\* The orders in which a configuration may declare some of the categories.
CategoryOrders ==
    {o \in UNION {[1..k -> CategoryNames] : k \in 0..Cardinality(CategoryNames)} :
        \A i, j \in 1..Len(o) : i # j => o[i] # o[j]}

\* config["analyses"] declaring the categories of `order`, with at most
\* `budget` method entries in all.
RECURSIVE AnalysesConfigs(_, _)
AnalysesConfigs(order, budget) ==
    IF order = <<>> THEN {<<>>}
    ELSE UNION {
           { <<[category |-> Head(order),
                cfg |-> DictMerge(e, [methods |-> m])]>> \o rest :
               e \in EnabledChoices,
               rest \in AnalysesConfigs(Tail(order), budget - Len(m)) } :
           m \in MethodLists(budget) }
         \cup
         { <<[category |-> Head(order), cfg |-> c]>> \o rest :
               c \in EnabledChoices \cup {NoneValue},
               rest \in AnalysesConfigs(Tail(order), budget) }

ChannelsChoices == {[analyze |-> <<"mono", "difference">>]}

\* The configurations with at most n method entries.  One without
\* channels.analyze stops in _load_audio whatever it lists: those list one
\* method entry at most.
Configs(n) ==
    LET analyses(k) == UNION {AnalysesConfigs(o, k) : o \in CategoryOrders}
    IN  {[analyses |-> a, channels |-> c] : a \in analyses(n), c \in ChannelsChoices}
        \cup {[analyses |-> a] : a \in analyses(IF n = 0 THEN 0 ELSE 1)}


(***************************************************************************)
(* Context construction (AnalysisRunner._load_audio).                      *)
(***************************************************************************)
\* The files audio_path may name: one that cannot be read, a mono and a stereo file.
AudioFiles == {"missing.wav", "mono.wav", "stereo.wav"}

NoContext == NoneValue

\* extract_channels leaving out the channels it cannot derive instead of raising.
extract_channels_lenient(audio_file, requested_channels) ==
    LET is_stereo == audio_file = "stereo.wav"
        available(c) == c \in {"left", "right", "mono"}
                        \/ (c \in {"sum", "difference"} /\ is_stereo)
    IN  [raised |-> "None", channels |-> SelectSeq(requested_channels, available)]

\* ChannelProcessor.extract_channels: the channels extracted, in dict order,
\* and what the call raised.
extract_channels(audio_file, requested_channels) ==
    LET valid_channels == {"left", "right", "mono", "sum", "difference"}
        is_stereo == audio_file = "stereo.wav"
        need_stereo == {"sum", "difference"}
    IN  IF \E i \in 1..Len(requested_channels) :
               requested_channels[i] \notin valid_channels
        THEN [raised |-> "ValueError", channels |-> <<>>]
        ELSE IF \E i \in 1..Len(requested_channels) :
                    requested_channels[i] \in need_stereo /\ ~is_stereo
        THEN [raised |-> "ValueError", channels |-> <<>>]
        ELSE [raised |-> "None", channels |-> requested_channels]

\* Durations are counted in half seconds: int(segment_duration * sample_rate)
\* for a duration of `halves` half seconds, int() truncating toward zero.
segment_samples_of(halves, sample_rate) ==
    LET doubled == halves * sample_rate
    IN  IF doubled >= 0 THEN doubled \div 2 ELSE -((-doubled) \div 2)

\* list(range(0, n_samples, step)) for a step other than 0: no start at all
\* for a negative step.
range_from_zero(n_samples, step) ==
    IF step < 0 THEN <<>>
    ELSE [i \in 1..((n_samples + step - 1) \div step) |-> (i - 1) * step]

Min(a, b) == IF a <= b THEN a ELSE b

\* _segment_by_energy with segments that all have the full size, the last
\* one not cut at the end of the audio.
segment_by_energy_uncut(n_samples, segment_samples) ==
    IF segment_samples = 0 THEN [raised |-> "ValueError", segments |-> <<>>]
    ELSE LET starts == range_from_zero(n_samples, segment_samples)
         IN  [raised |-> "None",
              segments |-> [i \in 1..Len(starts) |->
                              <<starts[i], starts[i] + segment_samples>>]]

\* Preprocessor._segment_by_energy: range() raises ValueError for a step of 0.
segment_by_energy(n_samples, segment_samples) ==
    IF segment_samples = 0 THEN [raised |-> "ValueError", segments |-> <<>>]
    ELSE LET starts == range_from_zero(n_samples, segment_samples)
         IN  [raised |-> "None",
              segments |-> [i \in 1..Len(starts) |->
                              <<starts[i],
                                Min(starts[i] + segment_samples, n_samples)>>]]

\* Preprocessor._segment_by_spectral: a segment shorter than half the
\* segment size is left out.
segment_by_spectral(n_samples, segment_samples) ==
    IF segment_samples = 0 THEN [raised |-> "ValueError", segments |-> <<>>]
    ELSE LET starts == range_from_zero(n_samples, segment_samples)
             all == [i \in 1..Len(starts) |->
                       <<starts[i], Min(starts[i] + segment_samples, n_samples)>>]
         IN  [raised |-> "None",
              segments |-> SelectSeq(all, LAMBDA seg :
                              ~(seg[2] - seg[1] < segment_samples \div 2))]

\* Preprocessor.segment_audio, the audio given by its number of samples and
\* the duration in half seconds.
segment_audio(n_samples, sample_rate, method, halves) ==
    IF method \notin {"energy", "spectral"}
    THEN [raised |-> "ValueError", segments |-> <<>>]
    ELSE LET segment_samples == segment_samples_of(halves, sample_rate)
         IN  IF method = "energy"
             THEN segment_by_energy(n_samples, segment_samples)
             ELSE segment_by_spectral(n_samples, segment_samples)

\* AnalysisRunner._compute_segments for a first channel of n_samples samples:
\* one segment over the whole channel unless segmentation is a dict with a
\* true "enabled"; segment_duration defaults to 1.0 s.
compute_segments(n_samples, sample_rate, preprocessing_config) ==
    IF preprocessing_config = NoneValue
    THEN [raised |-> "AttributeError", segments |-> <<>>]
    ELSE LET segmentation_config == Get(preprocessing_config, "segmentation", EmptyDict)
         IN  IF \/ segmentation_config = NoneValue
                \/ ~Get(segmentation_config, "enabled", FALSE)
             THEN [raised |-> "None", segments |-> << <<0, n_samples>> >>]
             ELSE segment_audio(n_samples, sample_rate,
                                Get(segmentation_config, "method", "energy"),
                                Get(segmentation_config, "segment_duration", 2))

\* AudioLoader.load for the readable files: the sample rate and the number
\* of samples per channel.
AudioOf(audio_file) ==
    IF audio_file = "stereo.wav" THEN [sample_rate |-> 2, samples |-> 4, channels |-> 2]
    ELSE [sample_rate |-> 2, samples |-> 3, channels |-> 1]

\* _load_audio handing the aggregator a metadata dict of its own, made before
\* the configuration's version is looked up.
load_audio_two_metadata(cfg, audio_file) ==
    LET failed(type) == [raised |-> type, metadata |-> EmptyDict, context |-> NoContext]
    IN  IF audio_file = "missing.wav" THEN failed("FileNotFoundError")
        ELSE IF "channels" \notin DOMAIN cfg \/ "analyze" \notin DOMAIN cfg.channels
        THEN failed("KeyError")
        ELSE LET loaded == AudioOf(audio_file)
                 requested_channels == cfg.channels.analyze
                 extracted == extract_channels(audio_file, requested_channels)
                 preprocessing_config == Get(cfg, "preprocessing", EmptyDict)
                 computed == compute_segments(loaded.samples, loaded.sample_rate,
                                              preprocessing_config)
                 meta == [audio_file |-> audio_file,
                          audio_info |-> [channels |-> loaded.channels,
                                          samples |-> loaded.samples],
                          sample_rate |-> loaded.sample_rate,
                          channels |-> requested_channels,
                          preprocessing |-> preprocessing_config,
                          config_version |-> Get(cfg, "version", "unknown")]
             IN  IF extracted.raised # "None" THEN failed(extracted.raised)
                 ELSE IF computed.raised # "None" THEN failed(computed.raised)
                 ELSE [raised |-> "None",
                       metadata |-> [k \in DOMAIN meta \ {"config_version"} |-> meta[k]],
                       context |-> [audio_data |-> extracted.channels,
                                    sample_rate |-> loaded.sample_rate,
                                    segments |-> computed.segments,
                                    metadata |-> meta]]

\* AnalysisRunner._load_audio: what it raised, and the metadata it handed to
\* the aggregator and the context it returned when it raised nothing.
load_audio(cfg, audio_file) ==
    LET failed(type) == [raised |-> type, metadata |-> EmptyDict, context |-> NoContext]
    IN  IF audio_file = "missing.wav" THEN failed("FileNotFoundError")
        ELSE IF "channels" \notin DOMAIN cfg \/ "analyze" \notin DOMAIN cfg.channels
        THEN failed("KeyError")
        ELSE LET loaded == AudioOf(audio_file)
                 requested_channels == cfg.channels.analyze
                 extracted == extract_channels(audio_file, requested_channels)
                 preprocessing_config == Get(cfg, "preprocessing", EmptyDict)
                 computed == compute_segments(loaded.samples, loaded.sample_rate,
                                              preprocessing_config)
                 meta == [audio_file |-> audio_file,
                          audio_info |-> [channels |-> loaded.channels,
                                          samples |-> loaded.samples],
                          sample_rate |-> loaded.sample_rate,
                          channels |-> requested_channels,
                          preprocessing |-> preprocessing_config,
                          config_version |-> Get(cfg, "version", "unknown")]
             IN  IF extracted.raised # "None" THEN failed(extracted.raised)
                 ELSE IF computed.raised # "None" THEN failed(computed.raised)
                 ELSE [raised |-> "None", metadata |-> meta,
                       context |-> [audio_data |-> extracted.channels,
                                    sample_rate |-> loaded.sample_rate,
                                    segments |-> computed.segments,
                                    metadata |-> meta]]

(***************************************************************************)
(* Method execution (AnalysisRunner._execute_analyses, _execute_method).   *)
(***************************************************************************)
\* What a callable may do when invoked: return a result with measurements
\* and a visualization payload, return one that reports a problem in its
\* measurements and has no payload, or raise an exception e, of which message
\* is str(e) (empty for an exception raised without arguments).  Only
\* exceptions derived from Exception are modelled.
Outcomes ==
    { [kind |-> "return", measurements |-> [peak |-> "0.5"], message |-> "",
       visualization_data |-> [mono |-> "samples"]],
      [kind |-> "return", measurements |-> [error |-> "Need at least 2 channels"],
       message |-> "", visualization_data |-> NoneValue],
      [kind |-> "raise", measurements |-> EmptyDict, message |-> "boom",
       visualization_data |-> NoneValue],
      [kind |-> "raise", measurements |-> EmptyDict, message |-> "",
       visualization_data |-> NoneValue] }

\* The method name a callable writes into the results it returns.
MethodOf(function) ==
    IF function = "envelope_analysis" THEN "envelope" ELSE function

\* The result a callable returns: its measurements, the parameters it used
\* as its metrics, and its visualization payload.
CallableResult(function, params, outcome) ==
    [AnalysisResult(MethodOf(function), outcome.measurements, params)
        EXCEPT !.visualization_data = outcome.visualization_data]

\* The skip test with categories enabled unless the configuration says otherwise.
Runnable_enabled_by_default(category_config) ==
    /\ category_config # NoneValue
    /\ Get(category_config, "enabled", TRUE)
    /\ Get(category_config, "methods", <<>>) # <<>>

\* The categories _execute_analyses does not skip: enabled, with methods.
Runnable(category_config) ==
    /\ category_config # NoneValue
    /\ Get(category_config, "enabled", FALSE)
    /\ Get(category_config, "methods", <<>>) # <<>>

\* The first category at or after index `from` that is not skipped; 0 if none.
NextCategory(analyses, from) ==
    LET later == {k \in from..Len(analyses) : Runnable(analyses[k].cfg)}
    IN  IF later = {} THEN 0
        ELSE CHOOSE k \in later : \A l \in later : k <= l

\* The merge with the overlay reversed: a default wins over an explicit value.
merge_params_defaults_win(default_params, params) == DictMerge(params, default_params)

\* merged_params = {**registration.default_params, **params}
merge_params(default_params, params) == DictMerge(default_params, params)

\* _execute_method swallowing a callable's exception without recording a result.
execute_method_drop_failed(ms, res, ctx, category, method_config, outcome) ==
    LET skipped == [results |-> res, raised |-> "None", call |-> NoneValue,
                   methods |-> ms, context |-> ctx]
    IN  IF "name" \notin DOMAIN method_config \/ method_config.name = ""
        THEN skipped
        ELSE LET method_name == method_config.name
                 registration == get_method(ms, method_name)
             IN  IF registration = NoneValue THEN skipped
                 ELSE LET params == Get(method_config, "params", EmptyDict)
                      IN  IF params = NoneValue
                          THEN [results |-> res, raised |-> "TypeError",
                                call |-> NoneValue, methods |-> ms, context |-> ctx]
                          ELSE
    LET merged_params == merge_params(registration.default_params, params)
        call == [category |-> category, identifier |-> method_name,
                 function |-> registration.function, context |-> ctx,
                 params |-> merged_params, outcome |-> outcome]
    IN  [results |-> IF outcome.kind = "return"
                     THEN add_result(res, category,
                              CallableResult(registration.function, merged_params,
                                             outcome))
                     ELSE res,
         raised |-> "None", call |-> call, methods |-> ms, context |-> ctx]

\* _execute_method also flagging a returned result that reports an error in
\* its measurements.
execute_method_flag_reported_errors(ms, res, ctx, category, method_config, outcome) ==
    LET skipped == [results |-> res, raised |-> "None", call |-> NoneValue,
                   methods |-> ms, context |-> ctx]
    IN  IF "name" \notin DOMAIN method_config \/ method_config.name = ""
        THEN skipped
        ELSE LET method_name == method_config.name
                 registration == get_method(ms, method_name)
             IN  IF registration = NoneValue THEN skipped
                 ELSE LET params == Get(method_config, "params", EmptyDict)
                      IN  IF params = NoneValue
                          THEN [results |-> res, raised |-> "TypeError",
                                call |-> NoneValue, methods |-> ms, context |-> ctx]
                          ELSE
    LET merged_params == merge_params(registration.default_params, params)
        call == [category |-> category, identifier |-> method_name,
                 function |-> registration.function, context |-> ctx,
                 params |-> merged_params, outcome |-> outcome]
        returned == CallableResult(registration.function, merged_params, outcome)
        result == IF outcome.kind = "return"
                  THEN IF "error" \in DOMAIN returned.measurements
                       THEN [returned EXCEPT !.metrics = [execution_failed |-> TRUE]]
                       ELSE returned
                  ELSE AnalysisResult(method_name, [error |-> outcome.message],
                                      [execution_failed |-> TRUE])
    IN  [results |-> add_result(res, category, result), raised |-> "None",
         call |-> call, methods |-> ms, context |-> ctx]

\* _execute_method noting the method it ran last in the context's metadata.
execute_method_annotate_context(ms, res, ctx, category, method_config, outcome) ==
    LET skipped == [results |-> res, raised |-> "None", call |-> NoneValue,
                   methods |-> ms, context |-> ctx]
    IN  IF "name" \notin DOMAIN method_config \/ method_config.name = ""
        THEN skipped
        ELSE LET method_name == method_config.name
                 registration == get_method(ms, method_name)
             IN  IF registration = NoneValue THEN skipped
                 ELSE LET params == Get(method_config, "params", EmptyDict)
                      IN  IF params = NoneValue
                          THEN [results |-> res, raised |-> "TypeError",
                                call |-> NoneValue, methods |-> ms, context |-> ctx]
                          ELSE
    LET merged_params == merge_params(registration.default_params, params)
        call == [category |-> category, identifier |-> method_name,
                 function |-> registration.function, context |-> ctx,
                 params |-> merged_params, outcome |-> outcome]
        result == IF outcome.kind = "return"
                  THEN CallableResult(registration.function, merged_params, outcome)
                  ELSE AnalysisResult(method_name, [error |-> outcome.message],
                                      [execution_failed |-> TRUE])
    IN  [results |-> add_result(res, category, result), raised |-> "None",
         call |-> call, methods |-> ms,
         context |-> [ctx EXCEPT !.metadata =
                         DictMerge(ctx.metadata, [last_method |-> method_name])]]

\* _execute_method merging the explicit params into the registration's own
\* default_params dict (default_params.update(params)).
execute_method_update_defaults(ms, res, ctx, category, method_config, outcome) ==
    LET skipped == [results |-> res, raised |-> "None", call |-> NoneValue,
                   methods |-> ms, context |-> ctx]
    IN  IF "name" \notin DOMAIN method_config \/ method_config.name = ""
        THEN skipped
        ELSE LET method_name == method_config.name
                 registration == get_method(ms, method_name)
             IN  IF registration = NoneValue THEN skipped
                 ELSE LET params == Get(method_config, "params", EmptyDict)
                      IN  IF params = NoneValue
                          THEN [results |-> res, raised |-> "TypeError",
                                call |-> NoneValue, methods |-> ms, context |-> ctx]
                          ELSE
    LET merged_params == merge_params(registration.default_params, params)
        call == [category |-> category, identifier |-> method_name,
                 function |-> registration.function, context |-> ctx,
                 params |-> merged_params, outcome |-> outcome]
        result == IF outcome.kind = "return"
                  THEN CallableResult(registration.function, merged_params, outcome)
                  ELSE AnalysisResult(method_name, [error |-> outcome.message],
                                      [execution_failed |-> TRUE])
    IN  [results |-> add_result(res, category, result), raised |-> "None",
         call |-> call,
         methods |-> [i \in 1..Len(ms) |->
                        IF ms[i].identifier = method_name
                        THEN [ms[i] EXCEPT !.default_params = merged_params]
                        ELSE ms[i]],
         context |-> ctx]

\* _execute_method filing the result under the category of the registration.
execute_method_file_by_registration(ms, res, ctx, category, method_config, outcome) ==
    LET skipped == [results |-> res, raised |-> "None", call |-> NoneValue,
                   methods |-> ms, context |-> ctx]
    IN  IF "name" \notin DOMAIN method_config \/ method_config.name = ""
        THEN skipped
        ELSE LET method_name == method_config.name
                 registration == get_method(ms, method_name)
             IN  IF registration = NoneValue THEN skipped
                 ELSE LET params == Get(method_config, "params", EmptyDict)
                      IN  IF params = NoneValue
                          THEN [results |-> res, raised |-> "TypeError",
                                call |-> NoneValue, methods |-> ms, context |-> ctx]
                          ELSE
    LET merged_params == merge_params(registration.default_params, params)
        call == [category |-> category, identifier |-> method_name,
                 function |-> registration.function, context |-> ctx,
                 params |-> merged_params, outcome |-> outcome]
        result == IF outcome.kind = "return"
                  THEN CallableResult(registration.function, merged_params, outcome)
                  ELSE AnalysisResult(method_name, [error |-> outcome.message],
                                      [execution_failed |-> TRUE])
    IN  [results |-> add_result(res, registration.category, result),
         raised |-> "None", call |-> call, methods |-> ms, context |-> ctx]

\* AnalysisRunner._execute_method: the aggregator's results after the call,
\* what the call raised, the invocation of the callable it made (if any), and
\* the registry and the runner's context after the call.
execute_method(ms, res, ctx, category, method_config, outcome) ==
    LET skipped == [results |-> res, raised |-> "None", call |-> NoneValue,
                   methods |-> ms, context |-> ctx]
    IN  IF "name" \notin DOMAIN method_config \/ method_config.name = ""
        THEN skipped
        ELSE LET method_name == method_config.name
                 registration == get_method(ms, method_name)
             IN  IF registration = NoneValue THEN skipped
                 ELSE LET params == Get(method_config, "params", EmptyDict)
                      IN  IF params = NoneValue
                          THEN [results |-> res, raised |-> "TypeError",
                                call |-> NoneValue, methods |-> ms, context |-> ctx]
                          ELSE
    LET merged_params == merge_params(registration.default_params, params)
        call == [category |-> category, identifier |-> method_name,
                 function |-> registration.function, context |-> ctx,
                 params |-> merged_params, outcome |-> outcome]
        result == IF outcome.kind = "return"
                  THEN CallableResult(registration.function, merged_params, outcome)
                  ELSE AnalysisResult(method_name, [error |-> outcome.message],
                                      [execution_failed |-> TRUE])
    IN  [results |-> add_result(res, category, result), raised |-> "None",
         call |-> call, methods |-> ms, context |-> ctx]

NoError == [phase |-> "", type |-> "None"]

(***************************************************************************)
(* Visualization (AnalysisRunner.__init__, _generate_basic_visualizations, *)
(* _generate_analysis_visualizations).                                     *)
(***************************************************************************)
\* self.visualizer is not None
HasVisualizer(cfg) ==
    Get(Get(cfg, "visualization", EmptyDict), "enabled", FALSE)

\* What a call of the rendering collaborator may do: return, or raise an
\* exception derived from Exception.
RenderOutcomes == {"ok", "raise"}

\* run() building the context anew once _execute_analyses has returned.
AfterAnalyses_back_to_context(cfg) == "CONTEXT_READY"

\* Where run() stands once _execute_analyses has returned.
AfterAnalyses(cfg) == IF HasVisualizer(cfg) THEN "VISUALIZING" ELSE "RESULTS_READY"

\* `not viz_data` is false: the payload is neither None nor an empty dict.
Truthy(viz_data) == viz_data # NoneValue /\ DOMAIN viz_data # {}

\* The results of results_dict["results"], category after category.
RECURSIVE Flatten(_)
Flatten(categories) ==
    IF categories = <<>> THEN <<>>
    ELSE Head(categories).items \o Flatten(Tail(categories))

\* _generate_analysis_visualizations skipping no result.
Payloads_of_every_result(results_dict) == Flatten(results_dict.results)

\* The results _generate_analysis_visualizations does not skip, in its order.
Payloads(results_dict) ==
    SelectSeq(Flatten(results_dict.results),
              LAMBDA method_result :
                  Truthy(Get(method_result, "visualization_data", EmptyDict)))

\* _generate_analysis_visualizations letting a rendering failure out: it
\* stops at the first payload whose rendering raises.
generate_analysis_visualizations_fail_fast(results_dict, outcomes) ==
    LET payloads == Payloads(results_dict)
        failing == {n \in 1..Len(payloads) : outcomes[n] = "raise"}
        last == IF failing = {} THEN Len(payloads)
                ELSE CHOOSE n \in failing : \A m \in failing : n <= m
    IN  [dispatched |-> [n \in 1..last |->
                           [method |-> payloads[n].method,
                            viz_data |-> payloads[n].visualization_data,
                            outcome |-> outcomes[n]]],
         raised |-> IF failing = {} THEN "None" ELSE "Exception"]

\* AnalysisRunner._generate_analysis_visualizations: the calls of
\* _generate_method_visualization it makes, outcomes[n] being what the n-th
\* does, and what it raises itself.
generate_analysis_visualizations(results_dict, outcomes) ==
    LET payloads == Payloads(results_dict)
    IN  [dispatched |-> [n \in 1..Len(payloads) |->
                           [method |-> payloads[n].method,
                            viz_data |-> payloads[n].visualization_data,
                            outcome |-> outcomes[n]]],
         raised |-> "None"]

(***************************************************************************)
(* The steps of AnalysisRunner.run.                                        *)
(***************************************************************************)
\* run(audio_path, output_path) is called and builds the context; with a
\* visualizer it then renders the basic visualizations, outside any try.
LoadAudio ==
    /\ pc = "INIT"
    /\ \E audio_file \in AudioFiles,
          basic \in IF HasVisualizer(config) THEN RenderOutcomes ELSE {"ok"} :
        LET r == load_audio(config, audio_file)
        IN  /\ audio' = audio_file
            /\ runNo' = runNo + 1
            /\ IF r.raised # "None"
               THEN /\ pc' = "FAILED"
                    /\ error' = [phase |-> "INIT", type |-> r.raised]
                    /\ UNCHANGED <<metadata, context>>
               ELSE /\ metadata' = r.metadata
                    /\ context' = r.context
                    /\ IF basic = "raise"
                       THEN /\ pc' = "FAILED"
                            /\ error' = [phase |-> "CONTEXT_READY",
                                         type |-> "Exception"]
                       ELSE /\ pc' = "CONTEXT_READY"
                            /\ UNCHANGED error
    /\ UNCHANGED <<methods, ret, config, results, ci, mi, invoked, written,
                   timestamp, now, rendered>>

\* _execute_analyses starts: it moves to the first category it does not skip.
BeginAnalyses ==
    /\ pc = "CONTEXT_READY"
    /\ LET first == NextCategory(Get(config, "analyses", <<>>), 1)
       IN  IF first = 0
           THEN pc' = AfterAnalyses(config) /\ UNCHANGED <<ci, mi>>
           ELSE pc' = "EXECUTING" /\ ci' = first /\ mi' = 1
    /\ UNCHANGED <<methods, ret, config, results, metadata, context, audio, error,
                   invoked, written, runNo,
                   timestamp, now, rendered>>

\* _execute_method on the entry at (ci, mi), then the loops move on.
ExecuteMethod ==
    /\ pc = "EXECUTING"
    /\ \E outcome \in Outcomes :
        LET analyses == config.analyses
            category == analyses[ci].category
            entries == analyses[ci].cfg.methods
            r == execute_method(methods, results, context, category, entries[mi],
                                outcome)
            next == NextCategory(analyses, ci + 1)
        IN  /\ results' = r.results
            /\ methods' = r.methods
            /\ context' = r.context
            /\ invoked' = IF r.call = NoneValue THEN invoked
                          ELSE Append(invoked, DictMerge(r.call,
                                   [run |-> runNo, ci |-> ci, mi |-> mi]))
            /\ IF r.raised # "None"
               THEN /\ pc' = "FAILED"
                    /\ error' = [phase |-> "EXECUTING", type |-> r.raised]
                    /\ UNCHANGED <<ci, mi>>
               ELSE /\ UNCHANGED error
                    /\ IF mi < Len(entries)
                       THEN pc' = pc /\ ci' = ci /\ mi' = mi + 1
                       ELSE IF next # 0
                       THEN pc' = pc /\ ci' = next /\ mi' = 1
                       ELSE pc' = AfterAnalyses(config) /\ ci' = 0 /\ mi' = 0
    /\ UNCHANGED <<ret, config, metadata, audio, written, runNo,
                   timestamp, now, rendered>>

\* _generate_analysis_visualizations, when the runner has a visualizer.
GenerateAnalysisVisualizations ==
    /\ pc = "VISUALIZING"
    /\ LET results_dict == get_results(results, metadata, timestamp)
       IN  \E outcomes \in [1..Len(Payloads(results_dict)) -> RenderOutcomes] :
             LET r == generate_analysis_visualizations(results_dict, outcomes)
             IN  /\ rendered' = rendered \o
                        [n \in 1..Len(r.dispatched) |->
                            DictMerge(r.dispatched[n], [run |-> runNo])]
                 /\ IF r.raised # "None"
                    THEN /\ pc' = "FAILED"
                         /\ error' = [phase |-> "VISUALIZING", type |-> r.raised]
                    ELSE /\ pc' = "RESULTS_READY"
                         /\ UNCHANGED error
    /\ UNCHANGED <<methods, ret, config, results, metadata, context, audio, ci, mi,
                   invoked, written, runNo, timestamp, now>>

\* AnalysisRunner._export_results: what it raised, the document it wrote to
\* results.json (None if it wrote none) and the aggregator's results after
\* it.  output_config.get raises AttributeError when the configuration gives
\* "output" as null.  The copy of the configuration it also writes
\* (config_used.json) is not part of the model.
export_results(cfg, res, meta, ts) ==
    LET output_config == Get(cfg, "output", EmptyDict)
    IN  IF output_config = NoneValue
        THEN [raised |-> "AttributeError", doc |-> NoneValue, results |-> res]
        ELSE IF Get(output_config, "save_raw_data", TRUE)
        THEN [raised |-> "None", doc |-> export_json(res, meta, ts, FALSE),
              results |-> results_after_export(res, FALSE)]
        ELSE [raised |-> "None", doc |-> NoneValue, results |-> res]

\* run() calls _export_results and returns, or raises what it raised.
ExportResults ==
    /\ pc = "RESULTS_READY"
    /\ LET r == export_results(config, results, metadata, timestamp)
       IN  /\ written' = IF r.doc = NoneValue THEN written
                         ELSE Append(written, [run |-> runNo,
                                               include_viz_data |-> FALSE,
                                               doc |-> r.doc])
           /\ results' = r.results
           /\ IF r.raised # "None"
              THEN /\ pc' = "FAILED"
                   /\ error' = [phase |-> "RESULTS_READY", type |-> r.raised]
              ELSE /\ pc' = "EXPORTED"
                   /\ UNCHANGED error
    /\ UNCHANGED <<methods, ret, config, metadata, context, audio, ci, mi,
                   invoked, runNo, timestamp, now, rendered>>

\* run() is called again on the same runner, after it returned or raised.
RunAgain ==
    /\ pc \in {"EXPORTED", "FAILED"}
    /\ runNo < MaxRuns
    /\ pc' = "INIT"
    /\ ci' = 0 /\ mi' = 0
    /\ error' = NoError
    /\ UNCHANGED <<methods, ret, config, results, metadata, context, audio,
                   invoked, written, runNo,
                   timestamp, now, rendered>>

(***************************************************************************)
(* Specifications.                                                         *)
(***************************************************************************)
\* The state after AnalysisRunner(config), for a configuration of Configs(n).
Constructed(n) ==
    /\ methods = RunnerRegistry
    /\ ret = NoCall
    /\ config \in Configs(n)
    /\ results = <<>>
    /\ metadata = EmptyDict
    /\ context = NoContext
    /\ audio = ""
    /\ pc = "INIT"
    /\ ci = 0 /\ mi = 0
    /\ error = NoError
    /\ invoked = <<>>
    /\ written = <<>>
    /\ runNo = 0
    /\ timestamp = 0
    /\ now = 0
    /\ rendered = <<>>

\* One run() on a freshly constructed runner.
Init == Constructed(MaxEntries)
Next == LoadAudio \/ BeginAnalyses \/ ExecuteMethod \/ ExportResults
Spec == Init /\ [][Next]_vars

\* run() called up to MaxRuns times on one runner.
InitRerun == Constructed(MaxRerunEntries)
NextRerun == LoadAudio \/ BeginAnalyses \/ ExecuteMethod \/ ExportResults \/ RunAgain
SpecRerun == InitRerun /\ [][NextRerun]_vars

\* One run() on a freshly constructed runner whose configuration enables
\* or disables visualization and declares both categories.
VizConfigs(n) ==
    {[analyses |-> a, channels |-> c, visualization |-> [enabled |-> e]] :
        a \in AnalysesConfigs(<<"temporal", "spectral">>, n), c \in ChannelsChoices,
        e \in BOOLEAN}
InitViz ==
    /\ methods = RunnerRegistry
    /\ ret = NoCall
    /\ config \in VizConfigs(MaxVizEntries)
    /\ results = <<>>
    /\ metadata = EmptyDict
    /\ context = NoContext
    /\ audio = ""
    /\ pc = "INIT"
    /\ ci = 0 /\ mi = 0
    /\ error = NoError
    /\ invoked = <<>>
    /\ written = <<>>
    /\ runNo = 0
    /\ timestamp = 0
    /\ now = 0
    /\ rendered = <<>>
NextViz ==
    \/ LoadAudio \/ BeginAnalyses \/ ExecuteMethod
    \/ GenerateAnalysisVisualizations \/ ExportResults
SpecViz == InitViz /\ [][NextViz]_vars

\* What a configuration may say under "output": nothing (the key is absent),
\* null, an empty dict, or a dict with save_raw_data or save_config.
OutputChoices ==
    {NoneValue, EmptyDict, [save_raw_data |-> TRUE], [save_raw_data |-> FALSE],
     [save_config |-> FALSE]}
OutputConfigs(n) ==
    LET base == {[analyses |-> a, channels |-> c] :
                    a \in AnalysesConfigs(<<"temporal", "spectral">>, n),
                    c \in ChannelsChoices}
    IN  base \cup {DictMerge(b, [output |-> o]) : b \in base, o \in OutputChoices}

\* One run() on a freshly constructed runner, for the output sections.
InitOutput ==
    /\ methods = RunnerRegistry
    /\ ret = NoCall
    /\ config \in OutputConfigs(MaxOutputEntries)
    /\ results = <<>>
    /\ metadata = EmptyDict
    /\ context = NoContext
    /\ audio = ""
    /\ pc = "INIT"
    /\ ci = 0 /\ mi = 0
    /\ error = NoError
    /\ invoked = <<>>
    /\ written = <<>>
    /\ runNo = 0
    /\ timestamp = 0
    /\ now = 0
    /\ rendered = <<>>
NextOutput == LoadAudio \/ BeginAnalyses \/ ExecuteMethod \/ ExportResults
SpecOutput == InitOutput /\ [][NextOutput]_vars

\* Method entries that set different explicit params for the same method.
RepeatedEntries ==
    { [name |-> "fft_global", params |-> [window |-> "hamming", overlap |-> "0.5"]],
      [name |-> "fft_global", params |-> [n_fft |-> "2048"]],
      [name |-> "fft_global"],
      [name |-> "envelope", params |-> [window |-> "hamming"]] }

\* Configurations with one enabled category that lists up to n of them.
RepeatedConfigs(n) ==
    {[analyses |-> <<[category |-> c, cfg |-> [enabled |-> TRUE, methods |-> m]]>>,
      channels |-> ch] :
        c \in CategoryNames,
        m \in UNION {[1..k -> RepeatedEntries] : k \in 1..n},
        ch \in ChannelsChoices}

\* One run() on a freshly constructed runner, for repeated method entries.
InitRepeated ==
    /\ methods = RunnerRegistry
    /\ ret = NoCall
    /\ config \in RepeatedConfigs(MaxRepeatedEntries)
    /\ results = <<>>
    /\ metadata = EmptyDict
    /\ context = NoContext
    /\ audio = ""
    /\ pc = "INIT"
    /\ ci = 0 /\ mi = 0
    /\ error = NoError
    /\ invoked = <<>>
    /\ written = <<>>
    /\ runNo = 0
    /\ timestamp = 0
    /\ now = 0
    /\ rendered = <<>>
NextRepeated == LoadAudio \/ BeginAnalyses \/ ExecuteMethod \/ ExportResults
SpecRepeated == InitRepeated /\ [][NextRepeated]_vars

\* An aggregator alone, from its construction: its operations in any order.
InitAggregator ==
    /\ methods = <<>>
    /\ ret = NoCall
    /\ config = [analyses |-> <<>>]
    /\ results = <<>>
    /\ metadata = EmptyDict
    /\ context = NoContext
    /\ audio = ""
    /\ pc = "INIT"
    /\ ci = 0 /\ mi = 0
    /\ error = NoError
    /\ invoked = <<>>
    /\ written = <<>>
    /\ runNo = 0
    /\ now = 0
    /\ timestamp = now
    /\ rendered = <<>>
NextAggregator ==
    AddResult \/ SetMetadata \/ GetResults \/ GetSummary \/ ExportJson
SpecAggregator == InitAggregator /\ [][NextAggregator]_vars

\* An aggregator that is filled and exported while time passes.
NextExport == AddResult \/ SetMetadata \/ ExportJson \/ Tick
SpecExport == InitAggregator /\ [][NextExport]_vars

\* The registry alone, from empty: its operations in any order.
InitRegistry ==
    /\ methods = <<>>
    /\ ret = NoCall
    /\ config = [analyses |-> <<>>]
    /\ results = <<>>
    /\ metadata = EmptyDict
    /\ context = NoContext
    /\ audio = ""
    /\ pc = "INIT"
    /\ ci = 0 /\ mi = 0
    /\ error = NoError
    /\ invoked = <<>>
    /\ written = <<>>
    /\ runNo = 0
    /\ timestamp = 0
    /\ now = 0
    /\ rendered = <<>>
NextRegistry == Register \/ GetMethod \/ GetByCategory \/ ListAll
SpecRegistry == InitRegistry /\ [][NextRegistry]_vars

\* The preprocessing configurations segments are computed for: segmentation
\* not given, null, disabled, or enabled with or without a method and a
\* segment_duration (in half seconds, from negative to MaxHalfSeconds).
SegmentationChoices ==
    {EmptyDict, [segmentation |-> NoneValue],
     [segmentation |-> [enabled |-> FALSE, method |-> "energy"]],
     [segmentation |-> [enabled |-> TRUE]],
     [segmentation |-> [enabled |-> TRUE, method |-> "spectral"]]}
    \cup {[segmentation |-> [enabled |-> TRUE, method |-> m, segment_duration |-> d]] :
            m \in {"energy", "spectral", "onset"}, d \in -1..MaxHalfSeconds}

SampleRates == {1, 2, 3}

\* _compute_segments is called for a first channel of n_samples samples.
ComputeSegments ==
    /\ \E n_samples \in 0..MaxSamples, sample_rate \in SampleRates,
          preprocessing_config \in SegmentationChoices :
        LET r == compute_segments(n_samples, sample_rate, preprocessing_config)
        IN  ret' = [op |-> "_compute_segments", identifier |-> "",
                    args |-> [n_samples |-> n_samples, sample_rate |-> sample_rate,
                              preprocessing_config |-> preprocessing_config],
                    raised |-> r.raised, value |-> r.segments]
    /\ UNCHANGED <<methods, config, results, metadata, context, audio, pc, ci, mi,
                   error, invoked, written, runNo, timestamp, now, rendered>>

\* The segments of a context, computed for any channel length and setting.
NextSegments == ComputeSegments
SpecSegments == InitRegistry /\ [][NextSegments]_vars

(***************************************************************************)
(* Vocabulary of the properties.                                           *)
(***************************************************************************)
Analyses == Get(config, "analyses", <<>>)

\* The index at which the configuration declares `category`; 0 if it does not.
DeclaredAt(category) ==
    IF \E k \in 1..Len(Analyses) : Analyses[k].category = category
    THEN CHOOSE k \in 1..Len(Analyses) : Analyses[k].category = category
    ELSE 0

\* The method entries the configuration lists under its k-th category.
EntriesOf(k) ==
    IF Analyses[k].cfg = NoneValue THEN <<>>
    ELSE Get(Analyses[k].cfg, "methods", <<>>)

\* The k-th category is enabled: it is a dict whose "enabled" is true.
EnabledCategory(k) ==
    /\ Analyses[k].cfg # NoneValue
    /\ "enabled" \in DOMAIN Analyses[k].cfg
    /\ Analyses[k].cfg.enabled

\* The entry's name is given and is an identifier of the registry.
Resolves(entry) ==
    /\ "name" \in DOMAIN entry
    /\ \E i \in 1..Len(methods) : methods[i].identifier = entry.name

\* The registration an entry's name resolves to.
RegistrationOf(entry) ==
    methods[CHOOSE i \in 1..Len(methods) : methods[i].identifier = entry.name]

\* The attempted entries of the k-th category: those of an enabled category
\* whose name resolves.
Attempted(k) ==
    IF EnabledCategory(k)
    THEN {j \in 1..Len(EntriesOf(k)) : Resolves(EntriesOf(k)[j])}
    ELSE {}

AttemptedEntries == UNION {{<<k, j>> : j \in Attempted(k)} : k \in 1..Len(Analyses)}

\* The j-th attempted entry of the k-th category.
NthAttempted(k, j) ==
    CHOOSE idx \in Attempted(k) : Cardinality({i \in Attempted(k) : i <= idx}) = j

\* The results recorded under a category; none if the category has no key.
ItemsOf(res, category) ==
    IF \E p \in 1..Len(res) : res[p].category = category
    THEN res[CHOOSE p \in 1..Len(res) : res[p].category = category].items
    ELSE <<>>

RECURSIVE TotalResults(_)
TotalResults(res) ==
    IF res = <<>> THEN 0 ELSE Len(Head(res).items) + TotalResults(Tail(res))

\* The invocations the current run made for the entry at (k, j).
CallsAt(k, j) ==
    {n \in 1..Len(invoked) :
        invoked[n].run = runNo /\ invoked[n].ci = k /\ invoked[n].mi = j}

\* The invocations the current run made.
CallsOfRun == {n \in 1..Len(invoked) : invoked[n].run = runNo}

ExecutionFailed(r) ==
    /\ "execution_failed" \in DOMAIN r.metrics
    /\ r.metrics.execution_failed = TRUE

\* run() has returned or raised.
Finished == pc \in {"EXPORTED", "FAILED"}

(***************************************************************************)
(* C1.  When a registered callable raises, the run records exactly one     *)
(* result for that method entry, under the configured category, with       *)
(* metrics.execution_failed = true and a non-empty error message in its    *)
(* measurements, and every other configured method entry (same and later   *)
(* categories) is still executed.                                          *)
(***************************************************************************)
C1_RaiseRecordedOnceOthersRun ==
    \A n \in CallsOfRun :
        invoked[n].outcome.kind = "raise" =>
            LET k == invoked[n].ci
                category == Analyses[k].category
                items == ItemsOf(results, category)
                rank == Cardinality({i \in Attempted(k) : i <= invoked[n].mi})
            IN  /\ invoked[n].category = category
                /\ Cardinality(CallsAt(k, invoked[n].mi)) = 1
                /\ Len(items) >= rank
                /\ items[rank].method = invoked[n].identifier
                /\ ExecutionFailed(items[rank])
                /\ "error" \in DOMAIN items[rank].measurements
                /\ items[rank].measurements.error # ""
                /\ Finished =>
                     /\ pc = "EXPORTED"
                     /\ \A e \in AttemptedEntries : CallsAt(e[1], e[2]) # {}
                     /\ TotalResults(results) = Cardinality(AttemptedEntries)

(***************************************************************************)
(* C2.  Once the context is built, no failure while a method entry is      *)
(* processed (resolving its name, merging its params, invoking its         *)
(* callable, appending its result) propagates out of the runner: run()     *)
(* raises only from context construction, and every run whose context was  *)
(* built goes on to export.                                                *)
(***************************************************************************)
C2_NoFailureDuringExecuting ==
    /\ pc = "FAILED" => error.phase = "INIT"
    /\ (Finished /\ context # NoContext) => pc = "EXPORTED"

(***************************************************************************)
(* C3.  At export time the aggregator holds exactly one result per         *)
(* attempted method entry: as many results in all, and under each          *)
(* category, as there are entries in enabled categories whose name         *)
(* resolves, whether the callable returned or raised; the exported         *)
(* document holds the same.                                                *)
(***************************************************************************)
C3_OneResultPerAttemptedEntry ==
    pc \in {"RESULTS_READY", "EXPORTED"} =>
        /\ TotalResults(results) = Cardinality(AttemptedEntries)
        /\ \A k \in 1..Len(Analyses) :
              Len(ItemsOf(results, Analyses[k].category)) = Cardinality(Attempted(k))
        /\ \A e \in AttemptedEntries : Cardinality(CallsAt(e[1], e[2])) = 1
        /\ pc = "EXPORTED" =>
              /\ written # <<>>
              /\ TotalResults(written[Len(written)].doc.results)
                    = Cardinality(AttemptedEntries)

\* An exported run in which one callable returned and another raised.
C3_Witness ==
    /\ pc = "EXPORTED"
    /\ \E p \in 1..Len(results) : \E j \in 1..Len(results[p].items) :
          ExecutionFailed(results[p].items[j])
    /\ \E p \in 1..Len(results) : \E j \in 1..Len(results[p].items) :
          ~ExecutionFailed(results[p].items[j])

(***************************************************************************)
(* C4.  Result ordering matches configuration order: the category keys of  *)
(* the results appear in the order the categories are declared, and within *)
(* each category the j-th result is the one of the j-th attempted entry: a *)
(* method that raises keeps its own position.  The exported document keeps *)
(* that order.                                                             *)
(***************************************************************************)
C4_ResultsInConfigurationOrder ==
    /\ \A p, q \in 1..Len(results) :
          /\ DeclaredAt(results[p].category) # 0
          /\ p < q => DeclaredAt(results[p].category) < DeclaredAt(results[q].category)
    /\ \A p \in 1..Len(results) :
          LET k == DeclaredAt(results[p].category)
              items == results[p].items
          IN  /\ Len(items) <= Cardinality(Attempted(k))
              /\ \A j \in 1..Len(items) :
                    LET idx == NthAttempted(k, j)
                        entry == EntriesOf(k)[idx]
                    IN  /\ items[j].method = entry.name
                        /\ \E n \in CallsAt(k, idx) :
                              /\ ExecutionFailed(items[j])
                                    <=> invoked[n].outcome.kind = "raise"
                              /\ invoked[n].outcome.kind = "return"
                                    => items[j].metrics = invoked[n].params
    /\ pc = "EXPORTED" =>
          LET doc == written[Len(written)].doc.results
          IN  /\ Len(doc) = Len(results)
              /\ \A p \in 1..Len(results) :
                    /\ doc[p].category = results[p].category
                    /\ Len(doc[p].items) = Len(results[p].items)
                    /\ \A j \in 1..Len(results[p].items) :
                          doc[p].items[j].method = results[p].items[j].method

\* An exported run whose first category holds a failed result followed by a
\* successful one of another method.
C4_Witness ==
    /\ pc = "EXPORTED"
    /\ results # <<>>
    /\ Len(results[1].items) = 2
    /\ ExecutionFailed(results[1].items[1])
    /\ ~ExecutionFailed(results[1].items[2])
    /\ results[1].items[1].method # results[1].items[2].method

(***************************************************************************)
(* C5.  The parameter map passed to a callable has exactly the keys of the *)
(* registration defaults D and of the entry's explicit params P; each key  *)
(* of P maps to P's value, each key only in D maps to D's value.           *)
(***************************************************************************)
C5_MergedParams ==
    \A n \in 1..Len(invoked) :
        LET entry == EntriesOf(invoked[n].ci)[invoked[n].mi]
            P == IF "params" \in DOMAIN entry THEN entry.params ELSE EmptyDict
            D == RegistrationOf(entry).default_params
            passed == invoked[n].params
        IN  /\ DOMAIN passed = DOMAIN D \cup DOMAIN P
            /\ \A key \in DOMAIN P : passed[key] = P[key]
            /\ \A key \in DOMAIN D \ DOMAIN P : passed[key] = D[key]

\* A callable was passed an overridden default, an untouched default and an
\* extra explicit key.
C5_Witness ==
    \E n \in 1..Len(invoked) :
        LET entry == EntriesOf(invoked[n].ci)[invoked[n].mi]
            D == RegistrationOf(entry).default_params
        IN  /\ "params" \in DOMAIN entry
            /\ \E key \in DOMAIN D \cap DOMAIN entry.params : D[key] # entry.params[key]
            /\ DOMAIN D \ DOMAIN entry.params # {}
            /\ DOMAIN entry.params \ DOMAIN D # {}


(***************************************************************************)
(* C6.  A method entry whose name is absent or does not resolve in the     *)
(* registry is skipped: no callable is invoked and no result is added for  *)
(* it, the run completes successfully, and all other configured method     *)
(* entries, before and after it, still execute.                            *)
(***************************************************************************)
C6_UnresolvedEntrySkipped ==
    \A k \in 1..Len(Analyses) : \A j \in 1..Len(EntriesOf(k)) :
        (EnabledCategory(k) /\ ~Resolves(EntriesOf(k)[j])) =>
            /\ CallsAt(k, j) = {}
            /\ Len(ItemsOf(results, Analyses[k].category)) <= Cardinality(Attempted(k))
            /\ (Finished /\ context # NoContext) =>
                  /\ pc = "EXPORTED"
                  /\ \A e \in AttemptedEntries : CallsAt(e[1], e[2]) # {}

(***************************************************************************)
(* C7.  A category that is disabled (enabled false or not given), or       *)
(* enabled with an empty method list, contributes nothing: none of its     *)
(* method entries is invoked, the results have no key for it, and the run  *)
(* goes on with the next category without error: no failure is raised at   *)
(* it, and once the results are ready every attempted entry of the other   *)
(* categories has been invoked.                                            *)
(***************************************************************************)
C7_SkippedCategoryContributesNothing ==
    \A k \in 1..Len(Analyses) :
        LET cfg == Analyses[k].cfg
            skipped == \/ cfg = NoneValue
                       \/ "enabled" \notin DOMAIN cfg
                       \/ ~cfg.enabled
                       \/ "methods" \notin DOMAIN cfg
                       \/ cfg.methods = <<>>
        IN  skipped =>
              /\ \A n \in 1..Len(invoked) : invoked[n].ci # k
              /\ \A p \in 1..Len(results) : results[p].category # Analyses[k].category
              /\ ~(pc \in {"EXECUTING", "FAILED"} /\ ci = k)
              /\ pc \in {"RESULTS_READY", "EXPORTED"} =>
                    \A e \in AttemptedEntries : CallsAt(e[1], e[2]) # {}

\* An exported run whose configuration declares a disabled category, listing
\* a registered method, before a category of which a method was invoked.
C7_Witness ==
    /\ pc = "EXPORTED"
    /\ Len(Analyses) = 2
    /\ Analyses[1].cfg # NoneValue
    /\ ~Get(Analyses[1].cfg, "enabled", FALSE)
    /\ \E j \in 1..Len(EntriesOf(1)) : Resolves(EntriesOf(1)[j])
    /\ \E n \in 1..Len(invoked) : invoked[n].ci = 2
    /\ Len(results) = 1 /\ results[1].category = Analyses[2].category

(***************************************************************************)
(* C8.  If context construction fails (audio unreadable, channel           *)
(* extraction impossible, channels.analyze missing), run() propagates the  *)
(* error to its caller, no analysis method is invoked, no result is added  *)
(* to the aggregator and no results artifact is written.                   *)
(***************************************************************************)
C8_ContextFailureIsFatal ==
    LET unreadable == audio = "missing.wav"
        no_channels_key == \/ "channels" \notin DOMAIN config
                           \/ "analyze" \notin DOMAIN config.channels
        cannot_extract ==
            /\ ~no_channels_key
            /\ audio = "mono.wav"
            /\ \E i \in 1..Len(config.channels.analyze) :
                  config.channels.analyze[i] \in {"sum", "difference"}
    IN  (runNo > 0 /\ (unreadable \/ no_channels_key \/ cannot_extract)) =>
            /\ pc = "FAILED"
            /\ error.phase = "INIT"
            /\ error.type # "None"
            /\ context = NoContext
            /\ invoked = <<>>
            /\ results = <<>>
            /\ written = <<>>

\* A run that failed because a channel could not be extracted, under a
\* configuration with an attempted method entry.
C8_Witness ==
    /\ pc = "FAILED"
    /\ error = [phase |-> "INIT", type |-> "ValueError"]
    /\ audio = "mono.wav"
    /\ AttemptedEntries # {}

(***************************************************************************)
(* C9.  Each run owns its own aggregator: the results a run exports are    *)
(* only those of its own method invocations, also when run() is called     *)
(* more than once on the same AnalysisRunner.                              *)
(***************************************************************************)
C9_RunExportsOnlyItsOwnResults ==
    pc = "EXPORTED" =>
        /\ TotalResults(results) = Cardinality(CallsOfRun)
        /\ written # <<>>
        /\ TotalResults(written[Len(written)].doc.results) = Cardinality(CallsOfRun)

(***************************************************************************)
(* C10.  register(i, ...) for an identifier that is already registered     *)
(* fails with the duplicate-registration error (ValueError) and leaves the *)
(* registry unchanged, whatever its other arguments: the lookup of i       *)
(* returns the first registration as before.                               *)
(***************************************************************************)
C10_DuplicateRegistrationRejected ==
    [][ (/\ ret'.op = "register"
         /\ ret' # ret
         /\ \E i \in 1..Len(methods) : methods[i].identifier = ret'.identifier)
        => /\ ret'.raised = "ValueError"
           /\ methods' = methods
           /\ \A i \in 1..Len(methods') :
                 methods'[i].identifier = ret'.identifier
                    => /\ i <= Len(methods)
                       /\ methods'[i] = methods[i] ]_vars

\* A register() call was rejected although its arguments differ from the
\* stored registration's.
C10_Witness ==
    /\ ret.op = "register"
    /\ ret.raised = "ValueError"
    /\ \E i \in 1..Len(methods) :
          /\ methods[i].identifier = ret.identifier
          /\ methods[i].category # ret.args.category
          /\ methods[i].function # ret.args.function
          /\ methods[i].description # ret.args.description

(***************************************************************************)
(* Vocabulary of the registry properties.                                  *)
(***************************************************************************)
\* The registrations stored in a registry.
Stored(ms) == {ms[i] : i \in 1..Len(ms)}

\* The position at which a registry stores the identifier; 0 if it does not.
PositionOf(ms, identifier) ==
    IF \E i \in 1..Len(ms) : ms[i].identifier = identifier
    THEN CHOOSE i \in 1..Len(ms) : ms[i].identifier = identifier
    ELSE 0

(***************************************************************************)
(* C11.  Register-then-lookup round trip: once register(i, c, f, d, p)     *)
(* succeeded for an identifier i not yet registered, the lookup of i       *)
(* returns a registration whose identifier, category, callable and         *)
(* description are exactly i, c, f, d and whose default_params is p (the   *)
(* empty map when none was given); every later lookup of a registered      *)
(* identifier returns the registration stored under it.                    *)
(***************************************************************************)
C11_RegisterLookupRoundTrip ==
    /\ (ret.op = "register" /\ ret.raised = "None") =>
          LET found == get_method(methods, ret.identifier)
          IN  /\ found # NoneValue
              /\ found.identifier = ret.identifier
              /\ found.category = ret.args.category
              /\ found.function = ret.args.function
              /\ found.description = ret.args.description
              /\ found.default_params =
                    IF ret.args.default_params = NoneValue THEN EmptyDict
                    ELSE ret.args.default_params
    /\ (ret.op = "get_method" /\ PositionOf(methods, ret.identifier) # 0) =>
          /\ ret.value = methods[PositionOf(methods, ret.identifier)]
          /\ ret.value.identifier = ret.identifier

\* A lookup returned a registration that was stored with default parameters,
\* after another identifier was registered.
C11_Witness ==
    /\ ret.op = "get_method"
    /\ ret.value # NoneValue
    /\ ret.value.default_params = [window |-> "hann"]
    /\ Len(methods) = 2

(***************************************************************************)
(* C12.  lookup(identifier) never throws and never changes the registry:   *)
(* for an identifier that was never registered it returns the not-found    *)
(* sentinel None, in every registry state.                                 *)
(***************************************************************************)
C12_LookupTotalAndPure ==
    [][ ret'.op = "get_method" =>
           /\ ret'.raised = "None"
           /\ methods' = methods
           /\ PositionOf(methods, ret'.identifier) = 0 => ret'.value = NoneValue
      ]_vars

\* An identifier that was never registered was looked up in a registry that
\* holds registrations.
C12_Witness ==
    /\ ret.op = "get_method"
    /\ ret.identifier = "nonexistent_method"
    /\ ret.value = NoneValue
    /\ Len(methods) = 2

(***************************************************************************)
(* C13.  The registry is append-only with globally unique identifiers:     *)
(* whatever register, lookup and list operation is called, every           *)
(* registration stored before it is still stored, unmodified and at its    *)
(* place, and no two stored registrations share an identifier.             *)
(***************************************************************************)
C13_RegistryAppendOnlyUnique ==
    [][ /\ Len(methods') >= Len(methods)
        /\ \A i \in 1..Len(methods) : methods'[i] = methods[i]
        /\ \A i, j \in 1..Len(methods') :
              methods'[i].identifier = methods'[j].identifier => i = j
      ]_vars

\* A register() call for a stored identifier, with other arguments, was made
\* on a registry that holds two registrations.
C13_Witness ==
    /\ ret.op = "register"
    /\ Len(methods) = 2
    /\ \E i \in 1..Len(methods) :
          /\ methods[i].identifier = ret.identifier
          /\ methods[i].category # ret.args.category

(***************************************************************************)
(* C14.  listByCategory(category) returns exactly the registrations whose  *)
(* category equals the argument, in the order in which they were           *)
(* registered, and an empty list when no registration has that category.   *)
(***************************************************************************)
C14_ListByCategoryInRegistrationOrder ==
    ret.op = "get_by_category" =>
        LET listed == ret.value
            category == ret.args.category
        IN  /\ \A a \in 1..Len(listed) :
                  /\ listed[a] \in Stored(methods)
                  /\ listed[a].category = category
            /\ \A r \in Stored(methods) :
                  r.category = category => \E a \in 1..Len(listed) : listed[a] = r
            /\ \A a, b \in 1..Len(listed) :
                  a < b => PositionOf(methods, listed[a].identifier)
                              < PositionOf(methods, listed[b].identifier)
            /\ (\A r \in Stored(methods) : r.category # category) => listed = <<>>

\* A category holding both registrations was listed.
C14_Witness ==
    /\ ret.op = "get_by_category"
    /\ Len(ret.value) = 2
    /\ ret.value[1].identifier # ret.value[2].identifier

(***************************************************************************)
(* C20.  When visualization is enabled, a rendering failure for one        *)
(* result's visualization payload is caught, never propagated: run() does  *)
(* not fail while the payloads are dispatched, the payload of every result *)
(* that carries one is dispatched, in the order of the results, whatever   *)
(* the earlier renderings did, and the run goes on to export all its       *)
(* results.                                                                *)
(***************************************************************************)
C20_RenderingFailureContained ==
    LET carrying == SelectSeq(Flatten(results),
                              LAMBDA r : /\ r.visualization_data # NoneValue
                                         /\ r.visualization_data # EmptyDict)
        dispatched == SelectSeq(rendered, LAMBDA d : d.run = runNo)
    IN  /\ ~(pc = "FAILED" /\ error.phase = "VISUALIZING")
        /\ (HasVisualizer(config) /\ pc \in {"RESULTS_READY", "EXPORTED"}) =>
              /\ Len(dispatched) = Len(carrying)
              /\ \A n \in 1..Len(carrying) :
                    /\ dispatched[n].method = carrying[n].method
                    /\ dispatched[n].viz_data = carrying[n].visualization_data
        /\ (HasVisualizer(config) /\ pc = "EXPORTED") =>
              /\ written # <<>>
              /\ TotalResults(written[Len(written)].doc.results)
                    = TotalResults(results)

\* An exported run in which the rendering of one payload raised and the
\* payload of the next result was dispatched and rendered.
C20_Witness ==
    /\ pc = "EXPORTED"
    /\ written # <<>>
    /\ \E n \in 1..Len(rendered) :
          /\ n < Len(rendered)
          /\ rendered[n].outcome = "raise"
          /\ rendered[n + 1].outcome = "ok"

(***************************************************************************)
(* C15.  An export with include_viz_data = false never contains a          *)
(* visualization_data key anywhere in the results tree, even if every      *)
(* in-memory result carries a visualization payload; the runner always     *)
(* exports this way, so no results document it writes holds the key.       *)
(***************************************************************************)
C15_NoVisualizationDataExported ==
    \A n \in 1..Len(written) :
        /\ written[n].include_viz_data = FALSE
        /\ \A p \in 1..Len(written[n].doc.results) :
              \A j \in 1..Len(written[n].doc.results[p].items) :
                 LET exported == written[n].doc.results[p].items[j]
                 IN  /\ "visualization_data" \notin DOMAIN exported
                     /\ "visualization_data" \notin DOMAIN exported.measurements
                     /\ "visualization_data" \notin DOMAIN exported.metrics

\* A run exported two results that both carry a visualization payload in
\* memory.
C15_Witness ==
    /\ pc = "EXPORTED"
    /\ written # <<>>
    /\ TotalResults(results) = 2
    /\ TotalResults(written[Len(written)].doc.results) = 2
    /\ \A p \in 1..Len(results) : \A j \in 1..Len(results[p].items) :
          /\ results[p].items[j].visualization_data # NoneValue
          /\ results[p].items[j].visualization_data # EmptyDict

(***************************************************************************)
(* C19.  A recorded result carries metrics.execution_failed = true if and  *)
(* only if the invocation of its callable raised an exception; a result    *)
(* returned normally by a callable, also one that reports a problem in its *)
(* measurements, is recorded as returned, without the flag.                *)
(***************************************************************************)
C19_FlagIffCallableRaised ==
    \A p \in 1..Len(results) :
        LET k == DeclaredAt(results[p].category)
            items == results[p].items
        IN  \A j \in 1..Len(items) :
              /\ k # 0
              /\ j <= Cardinality(Attempted(k))
              /\ \E n \in CallsAt(k, NthAttempted(k, j)) :
                    /\ ExecutionFailed(items[j]) <=> invoked[n].outcome.kind = "raise"
                    /\ invoked[n].outcome.kind = "return" =>
                          /\ items[j].measurements = invoked[n].outcome.measurements
                          /\ "execution_failed" \notin DOMAIN items[j].metrics

\* The results hold one whose callable returned an error report in its
\* measurements, unflagged, and one whose callable raised, flagged.
C19_Witness ==
    /\ pc = "EXPORTED"
    /\ \E p \in 1..Len(results) : \E j \in 1..Len(results[p].items) :
          /\ "error" \in DOMAIN results[p].items[j].measurements
          /\ ~ExecutionFailed(results[p].items[j])
    /\ \E p \in 1..Len(results) : \E j \in 1..Len(results[p].items) :
          ExecutionFailed(results[p].items[j])

(***************************************************************************)
(* C16.  Export is idempotent: two exports of the same aggregator, with    *)
(* the same include_viz_data and the aggregator holding the same results   *)
(* and metadata at both (no add_result or set_metadata in between), write  *)
(* identical documents, with the same timestamp, metadata and results,     *)
(* however much time passed between them.                                  *)
(***************************************************************************)
C16_ExportIdempotent ==
    \A m, n \in 1..Len(written) :
        ( /\ written[m].include_viz_data = written[n].include_viz_data
          /\ written[m].results = written[n].results
          /\ written[m].metadata = written[n].metadata )
        => /\ written[m].doc = written[n].doc
           /\ written[m].doc.timestamp = written[n].doc.timestamp
           /\ written[m].doc.metadata = written[n].doc.metadata
           /\ written[m].doc.results = written[n].doc.results

\* The same aggregator content, with results and metadata, was exported
\* twice the same way, and time has passed since the aggregator was made.
C16_Witness ==
    /\ Len(written) = 2
    /\ written[1].include_viz_data = written[2].include_viz_data
    /\ written[1].results = written[2].results
    /\ written[1].metadata = written[2].metadata
    /\ written[1].results # <<>>
    /\ written[1].metadata # EmptyDict
    /\ now > timestamp

(***************************************************************************)
(* C17.  The aggregator is append-only: across add_result, set_metadata,   *)
(* get_results, get_summary and export_json calls, add_result(category, r) *)
(* appends r at the end of that category's list, and no operation removes, *)
(* replaces or reorders a result that was added before.                    *)
(***************************************************************************)
C17_AggregatorAppendOnly ==
    [][ /\ Len(results') >= Len(results)
        /\ \A p \in 1..Len(results) :
              /\ results'[p].category = results[p].category
              /\ Len(results'[p].items) >= Len(results[p].items)
              /\ \A j \in 1..Len(results[p].items) :
                    results'[p].items[j] = results[p].items[j]
        /\ results' # results =>
              /\ ret'.op = "add_result"
              /\ ItemsOf(results', ret'.args.category)
                    = Append(ItemsOf(results, ret'.args.category), ret'.args.result)
              /\ TotalResults(results') = TotalResults(results) + 1
        /\ ret'.op # "add_result" => results' = results
      ]_vars

\* add_result was called for a category that held a different result.
C17_Witness ==
    /\ ret.op = "add_result"
    /\ Len(ItemsOf(results, ret.args.category)) = 2
    /\ ItemsOf(results, ret.args.category)[1] # ret.args.result
    /\ ItemsOf(results, ret.args.category)[2] = ret.args.result

(***************************************************************************)
(* C18.  What ran is reconstructable from the aggregator alone: the        *)
(* summary of a new aggregator counts nothing, and each add_result call    *)
(* raises total_methods by one, raises total_categories by one exactly     *)
(* when the category is new, and appends the result's method name to that  *)
(* category's list, whose method_count is its length; no other call        *)
(* changes the summary.  So get_summary reports the add_result calls made, *)
(* per category and in call order, whatever the registry holds.            *)
(***************************************************************************)
C18_SummaryReconstructsWhatRan ==
    [][ LET before == get_summary(results)
            after == get_summary(results')
            MethodsOf(summary, category) ==
                IF \E i \in 1..Len(summary.categories) :
                      summary.categories[i].category = category
                THEN summary.categories[
                        CHOOSE i \in 1..Len(summary.categories) :
                            summary.categories[i].category = category].methods
                ELSE <<>>
        IN  /\ results = <<>> =>
                  /\ before.total_methods = 0
                  /\ before.total_categories = 0
                  /\ before.categories = <<>>
            /\ \A i \in 1..Len(after.categories) :
                  after.categories[i].method_count = Len(after.categories[i].methods)
            /\ IF ret'.op = "add_result" /\ (ret' # ret \/ results' # results)
               THEN LET category == ret'.args.category
                        known == \E i \in 1..Len(before.categories) :
                                    before.categories[i].category = category
                    IN  /\ after.total_methods = before.total_methods + 1
                        /\ after.total_categories =
                              before.total_categories + (IF known THEN 0 ELSE 1)
                        /\ MethodsOf(after, category) =
                              Append(MethodsOf(before, category),
                                     ret'.args.result.method)
                        /\ \A i \in 1..Len(before.categories) :
                              before.categories[i].category # category =>
                                 after.categories[i] = before.categories[i]
               ELSE after = before
            /\ ret'.op = "get_summary" => ret'.value = after
      ]_vars

\* get_summary was called on an aggregator holding two results of one
\* category, while the registry holds no method at all.
C18_Witness ==
    /\ ret.op = "get_summary"
    /\ ret.value.total_methods = 2
    /\ ret.value.total_categories = 1
    /\ Len(ret.value.categories[1].methods) = 2
    /\ ret.value.categories[1].methods[1] # ret.value.categories[1].methods[2]
    /\ methods = <<>>


\* The position of a phase in run(): the statements of run() in program
\* order, the dispatch of the payloads between the analyses and the export;
\* a run that raised has left every phase.
PhaseRank(phase) ==
    CASE phase = "INIT" -> 0
      [] phase = "CONTEXT_READY" -> 1
      [] phase = "EXECUTING" -> 2
      [] phase = "VISUALIZING" -> 3
      [] phase = "RESULTS_READY" -> 4
      [] phase = "EXPORTED" -> 5
      [] phase = "FAILED" -> 6

(***************************************************************************)
(* C21.  Every run goes through its phases in the order INIT,              *)
(* CONTEXT_READY, EXECUTING, RESULTS_READY, EXPORTED: every change of      *)
(* phase moves forward in that order (no phase is re-entered once left), a *)
(* callable is invoked only in EXECUTING with the context built, a payload *)
(* is dispatched only after every attempted method entry has been          *)
(* processed, and the export is written only after that stage.             *)
(***************************************************************************)
C21_PhasesInOrder ==
    [][ /\ pc' # pc => PhaseRank(pc') > PhaseRank(pc)
        /\ invoked' # invoked =>
              /\ pc = "EXECUTING"
              /\ context # NoContext
        /\ rendered' # rendered =>
              /\ pc = "VISUALIZING"
              /\ ci = 0
              /\ \A e \in AttemptedEntries : CallsAt(e[1], e[2]) # {}
        /\ written' # written =>
              /\ pc = "RESULTS_READY" /\ pc' = "EXPORTED"
              /\ HasVisualizer(config) =>
                    Len(SelectSeq(rendered', LAMBDA d : d.run = runNo))
                       = Len(Payloads(get_results(results, metadata, timestamp)))
      ]_vars

\* An exported run that invoked callables in two categories, dispatched a
\* payload and wrote its results.
C21_Witness ==
    /\ pc = "EXPORTED"
    /\ \E n, m \in CallsOfRun : invoked[n].ci # invoked[m].ci
    /\ rendered # <<>>
    /\ written # <<>>


(***************************************************************************)
(* C23.  For every channel length n and every segmentation setting         *)
(* (disabled, "energy" or "spectral", any segment size) for which the      *)
(* segments are computed without an exception, the segments are an ordered *)
(* list of non-overlapping index ranges: each (start, end) satisfies       *)
(* 0 <= start <= end <= n, and each segment starts at or after the end of  *)
(* the previous one.                                                       *)
(***************************************************************************)
C23_SegmentsOrderedDisjointInRange ==
    (ret.op = "_compute_segments" /\ ret.raised = "None") =>
        LET segments == ret.value
            n == ret.args.n_samples
        IN  /\ \A i \in 1..Len(segments) :
                  /\ 0 <= segments[i][1]
                  /\ segments[i][1] <= segments[i][2]
                  /\ segments[i][2] <= n
            /\ \A i \in 1..(Len(segments) - 1) :
                  segments[i][2] <= segments[i + 1][1]

\* Spectral segmentation that left out a short last segment, so that the
\* segments end before the end of the audio.
C23_Witness ==
    /\ ret.op = "_compute_segments" /\ ret.raised = "None"
    /\ "segmentation" \in DOMAIN ret.args.preprocessing_config
    /\ ret.args.preprocessing_config.segmentation # NoneValue
    /\ Get(ret.args.preprocessing_config.segmentation, "method", "") = "spectral"
    /\ Len(ret.value) >= 1
    /\ ret.value[Len(ret.value)][2] < ret.args.n_samples


(***************************************************************************)
(* C22.  The context is never mutated after construction: no step of a run *)
(* after the construction (method execution, failure handling, payload     *)
(* dispatch, export) changes the context, it stays the one _load_audio     *)
(* built (channels, sample_rate, segments, metadata), and every method     *)
(* invocation of the run received that same context.                       *)
(***************************************************************************)
C22_ContextNeverMutated ==
    /\ [][pc # "INIT" => context' = context]_vars
    /\ [](context # NoContext =>
             /\ context = load_audio(config, audio).context
             /\ \A n \in CallsOfRun : invoked[n].context = context)

\* An exported run in which two callables were invoked, one of them raised,
\* and a payload was dispatched.
C22_Witness ==
    /\ pc = "EXPORTED"
    /\ written # <<>>
    /\ rendered # <<>>
    /\ \E n, m \in CallsOfRun :
          /\ n < m
          /\ invoked[n].outcome.kind = "raise"
          /\ invoked[m].outcome.kind = "return"
          /\ invoked[m].context.segments # <<>>


(***************************************************************************)
(* C24.  Visualization dispatch is selective: a payload is handed to the   *)
(* rendering collaborator only when visualization.enabled is true and only *)
(* for a result that carries a non-empty visualization_data; synthetic     *)
(* error results and results without a payload are never dispatched, and   *)
(* with visualization disabled nothing is dispatched at all.               *)
(***************************************************************************)
C24_DispatchSelective ==
    LET dispatched == SelectSeq(rendered, LAMBDA d : d.run = runNo)
        carrying == SelectSeq(Flatten(results),
                              LAMBDA r : Truthy(r.visualization_data))
    IN  /\ ~HasVisualizer(config) => rendered = <<>>
        /\ Len(dispatched) <= Len(carrying)
        /\ \A n \in 1..Len(dispatched) :
              /\ Truthy(dispatched[n].viz_data)
              /\ dispatched[n].method = carrying[n].method
              /\ dispatched[n].viz_data = carrying[n].visualization_data
              /\ ~ExecutionFailed(carrying[n])

\* Visualization is enabled and the run recorded a synthetic error result
\* and a result with a payload: only the payload was dispatched.
C24_Witness ==
    /\ HasVisualizer(config)
    /\ pc = "EXPORTED"
    /\ \E r \in {Flatten(results)[n] : n \in 1..Len(Flatten(results))} :
          ExecutionFailed(r) /\ r.visualization_data = NoneValue
    /\ Len(Flatten(results)) = 2
    /\ Len(rendered) = 1


(***************************************************************************)
(* C25.  export_json leaves the aggregator unchanged: across an export     *)
(* with include_viz_data = false, results, metadata and timestamp are the  *)
(* same as before, and the in-memory snapshot (get_results) taken after    *)
(* the export still contains the visualization_data of every result that   *)
(* had one.                                                                *)
(***************************************************************************)
C25_ExportLeavesAggregatorUnchanged ==
    [][ (written' # written /\ ~written'[Len(written')].include_viz_data) =>
          LET before == get_results(results, metadata, timestamp)
              after == get_results(results', metadata', timestamp')
          IN  /\ results' = results
              /\ metadata' = metadata
              /\ timestamp' = timestamp
              /\ after = before
              /\ \A i \in 1..Len(results) : \A j \in 1..Len(results[i].items) :
                    Truthy(results[i].items[j].visualization_data) =>
                       /\ "visualization_data" \in DOMAIN after.results[i].items[j]
                       /\ after.results[i].items[j].visualization_data
                             = results[i].items[j].visualization_data
      ]_vars

\* An export without the payloads was written while the aggregator held a
\* result with a payload, and the snapshot taken afterwards has the payload.
C25_Witness ==
    /\ ret.op = "get_results"
    /\ written # <<>>
    /\ ~written[Len(written)].include_viz_data
    /\ written[Len(written)].results = results
    /\ \E i \in 1..Len(results) : \E j \in 1..Len(results[i].items) :
          /\ Truthy(results[i].items[j].visualization_data)
          /\ "visualization_data" \notin
                DOMAIN written[Len(written)].doc.results[i].items[j]
          /\ Truthy(ret.value.results[i].items[j].visualization_data)


\* output.save_raw_data is true or not given.
SaveRawDataRequested ==
    LET output_config == Get(config, "output", EmptyDict)
    IN  \/ output_config = NoneValue
        \/ "save_raw_data" \notin DOMAIN output_config
        \/ output_config.save_raw_data

(***************************************************************************)
(* C28.  The run writes the results artifact exactly when                  *)
(* output.save_raw_data is true or not given: a run that has processed its *)
(* methods does not fail in the export, it has written results.json if and *)
(* only if save_raw_data is true or not given, and with save_raw_data      *)
(* false it has still invoked every attempted method entry and completes   *)
(* without a results artifact.                                             *)
(***************************************************************************)
C28_ResultsWrittenIffSaveRawData ==
    /\ ~(pc = "FAILED" /\ error.phase = "RESULTS_READY")
    /\ pc = "EXPORTED" =>
          /\ (written # <<>>) <=> SaveRawDataRequested
          /\ \A e \in AttemptedEntries : CallsAt(e[1], e[2]) # {}


(***************************************************************************)
(* C26.  Merging parameters never changes the registry: after any number   *)
(* of method executions each registration's default_params has the same    *)
(* keys and values as at registration, so a method configured twice in one *)
(* run with different explicit params is passed, for every key its second  *)
(* entry does not set, the default as it was registered.                   *)
(***************************************************************************)
C26_DefaultsUnchangedByMerging ==
    /\ methods = RunnerRegistry
    /\ \A n \in 1..Len(invoked) :
          LET entry == EntriesOf(invoked[n].ci)[invoked[n].mi]
              P == Get(entry, "params", EmptyDict)
              registered == get_method(RunnerRegistry, entry.name).default_params
          IN  \A key \in DOMAIN registered \ DOMAIN P :
                  invoked[n].params[key] = registered[key]

\* A method was invoked twice in one run: its first entry overrode a default
\* that its second entry does not set.
C26_Witness ==
    \E n, m \in CallsOfRun :
        LET first == EntriesOf(invoked[n].ci)[invoked[n].mi]
            second == EntriesOf(invoked[m].ci)[invoked[m].mi]
            registered == get_method(RunnerRegistry, first.name).default_params
        IN  /\ n < m
            /\ first.name = second.name
            /\ "params" \in DOMAIN first /\ "params" \in DOMAIN second
            /\ first.params # second.params
            /\ \E key \in (DOMAIN registered \cap DOMAIN first.params)
                             \ DOMAIN second.params :
                  /\ first.params[key] # registered[key]
                  /\ invoked[m].params[key] = registered[key]


(***************************************************************************)
(* C27.  A result is filed under the category of the configuration block   *)
(* that lists its method entry, not under the category stored in the       *)
(* method's registration: the results of a category are those of the       *)
(* invocations made for its block, in order, and an entry is invoked       *)
(* whatever category its registration names.                               *)
(***************************************************************************)
C27_FiledUnderConfiguredCategory ==
    \A k \in 1..Len(Analyses) :
        LET calls == SelectSeq(invoked, LAMBDA c : c.ci = k)
            items == ItemsOf(results, Analyses[k].category)
        IN  /\ Len(items) = Len(calls)
            /\ \A j \in 1..Len(calls) :
                  /\ calls[j].category = Analyses[k].category
                  /\ items[j].method \in {calls[j].identifier,
                                          MethodOf(calls[j].function)}

\* A method registered under one category was listed under another one, was
\* invoked, and its result is filed under the configured category only.
C27_Witness ==
    /\ pc = "EXPORTED"
    /\ \E n \in 1..Len(invoked) :
          LET entry == EntriesOf(invoked[n].ci)[invoked[n].mi]
              registered == RegistrationOf(entry).category
              configured == Analyses[invoked[n].ci].category
          IN  /\ registered # configured
              /\ Len(ItemsOf(results, configured)) = 1
              /\ ItemsOf(results, configured)[1].method = entry.name
              /\ ItemsOf(results, registered) = <<>>


(***************************************************************************)
(* C29.  The aggregator's metadata is set exactly once per run, during     *)
(* context construction and before any method is invoked, to the same      *)
(* metadata the context carries; no method execution, failure or           *)
(* visualization step changes it, so the exported metadata equals the      *)
(* context metadata.                                                       *)
(***************************************************************************)
C29_MetadataSetOnceWithContext ==
    /\ [][metadata' # metadata =>
             /\ pc = "INIT" /\ context' # NoContext
             /\ CallsOfRun' = {}]_vars
    /\ [](context # NoContext => metadata = context.metadata)
    /\ [](\A n \in CallsOfRun : invoked[n].context.metadata = metadata)
    /\ [](\A n \in 1..Len(written) :
             written[n].run = runNo => written[n].doc.metadata = context.metadata)

\* An exported run with a failed and a successful invocation and a rendered
\* payload, whose document carries the metadata of the context.
C29_Witness ==
    /\ pc = "EXPORTED"
    /\ written # <<>>
    /\ written[Len(written)].doc.metadata = context.metadata
    /\ context.metadata.audio_file = audio
    /\ rendered # <<>>
    /\ \E n, m \in CallsOfRun :
          invoked[n].outcome.kind = "raise" /\ invoked[m].outcome.kind = "return"

====
